---- MODULE Spec2Model ----
(***************************************************************************)
(* Know Your Doses (KYD.py): dose recurrence and administration            *)
(* reconciliation.                                                         *)
(*                                                                         *)
(* Dates are day ordinals, day 0 = 2024-01-01 (a Monday).  The TEXT date   *)
(* columns hold date.isoformat() of such a date; isoformat and strptime    *)
(* are inverse on dates, so the store keeps the ordinal.  A nullable       *)
(* column is an option: <<>> is NULL / None, <<v>> is the value v.         *)
(* The application has one person in this model, so person_id is left out  *)
(* of the rows.  Table HistoricalDose is a bag of rows: its id column only *)
(* names a row, and a row is picked by its content.                        *)
(***************************************************************************)
EXTENDS Integers, Sequences, FiniteSets, Bags, TLC

None == <<>>
Some(v) == <<v>>

\* Python truthiness of an optional integer: None and 0 are false.
Truthy(o) == o # None /\ o[1] # 0

Max(a, b) == IF a >= b THEN a ELSE b

(***************************************************************************)
(* datetime.date: year, month, day and weekday of a day ordinal            *)
(***************************************************************************)
\* days from 0000-03-01 to 1970-01-01, plus days from 1970-01-01 to 2024-01-01
EpochShift == 719468 + 19723

DoE(o) == (o + EpochShift) % 146097
Era(o) == (o + EpochShift) \div 146097
YoE(o) == (DoE(o) - DoE(o) \div 1460 + DoE(o) \div 36524 - DoE(o) \div 146096) \div 365
DoY(o) == DoE(o) - (365 * YoE(o) + YoE(o) \div 4 - YoE(o) \div 100)
Mp(o) == (5 * DoY(o) + 2) \div 153

\* date.day
DayOf(o) == DoY(o) - (153 * Mp(o) + 2) \div 5 + 1
\* date.month
MonthOf(o) == IF Mp(o) < 10 THEN Mp(o) + 3 ELSE Mp(o) - 9
\* date.year
YearOf(o) == YoE(o) + Era(o) * 400 + (IF MonthOf(o) <= 2 THEN 1 ELSE 0)
\* date.weekday(): Monday is 0
Weekday(o) == o % 7

(***************************************************************************)
(* Frequency tables                                                        *)
(***************************************************************************)
is_weekday == {0, 1, 2, 3, 4}
monday_wednesday_friday == {0, 2, 4}
\* Monday and Tuesday in place of Monday and Thursday
monday_tuesday == {0, 1}
monday_thursday == {0, 3}
all_frequencies ==
    {"daily", "twice-daily", "weekly", "M,W,F", "M,TH", "MTWTHF", "monthly", "quarterly"}
weekly_frequencies == {"weekly", "M,W,F", "M,TH", "MTWTHF"}

(***************************************************************************)
(* is_dose_due_on_date                                                     *)
(***************************************************************************)
last_day_of_month(dt) ==
    LET next_month == (dt - DayOf(dt) + 28) + 4
    IN  DayOf(next_month - DayOf(next_month))

\* The cycling block: TRUE when it returns 0 (the rule is in its OFF phase).
CyclingOffWrongCompare(prescription, check_date) ==
    LET date_first == prescription.date_first_prescribed
        cycling_on == prescription.cycling_days_on
        cycling_off == prescription.cycling_days_off
        days_since_start == check_date - date_first
    IN  /\ Truthy(cycling_on) /\ Truthy(cycling_off)
        /\ \/ /\ prescription.frequency \in {"daily", "twice-daily"}
              /\ days_since_start % (cycling_on[1] + cycling_off[1]) > cycling_on[1]
           \/ /\ prescription.frequency \in weekly_frequencies
              /\ (days_since_start \div 7) % (cycling_on[1] + cycling_off[1]) > cycling_on[1]

\* the weekly branch counting days where the code counts weeks
CyclingOffWeeksAsDays(prescription, check_date) ==
    LET date_first == prescription.date_first_prescribed
        cycling_on == prescription.cycling_days_on
        cycling_off == prescription.cycling_days_off
        days_since_start == check_date - date_first
    IN  /\ Truthy(cycling_on) /\ Truthy(cycling_off)
        /\ \/ /\ prescription.frequency \in {"daily", "twice-daily"}
              /\ days_since_start % (cycling_on[1] + cycling_off[1]) >= cycling_on[1]
           \/ /\ prescription.frequency \in weekly_frequencies
              /\ days_since_start % (cycling_on[1] + cycling_off[1]) >= cycling_on[1]

\* the day cycle applied to every frequency outside the weekly family
CyclingOffAnyFrequency(prescription, check_date) ==
    LET date_first == prescription.date_first_prescribed
        cycling_on == prescription.cycling_days_on
        cycling_off == prescription.cycling_days_off
        days_since_start == check_date - date_first
    IN  /\ Truthy(cycling_on) /\ Truthy(cycling_off)
        /\ \/ /\ prescription.frequency \notin weekly_frequencies
              /\ days_since_start % (cycling_on[1] + cycling_off[1]) >= cycling_on[1]
           \/ /\ prescription.frequency \in weekly_frequencies
              /\ (days_since_start \div 7) % (cycling_on[1] + cycling_off[1]) >= cycling_on[1]

\* the block entered when either value is set, a missing one counting as 0
CyclingOffEitherPresent(prescription, check_date) ==
    LET date_first == prescription.date_first_prescribed
        cycling_on == IF Truthy(prescription.cycling_days_on)
                      THEN prescription.cycling_days_on[1] ELSE 0
        cycling_off == IF Truthy(prescription.cycling_days_off)
                       THEN prescription.cycling_days_off[1] ELSE 0
        days_since_start == check_date - date_first
    IN  /\ cycling_on + cycling_off > 0
        /\ \/ /\ prescription.frequency \in {"daily", "twice-daily"}
              /\ days_since_start % (cycling_on + cycling_off) >= cycling_on
           \/ /\ prescription.frequency \in weekly_frequencies
              /\ (days_since_start \div 7) % (cycling_on + cycling_off) >= cycling_on

CyclingOff(prescription, check_date) ==
    LET date_first == prescription.date_first_prescribed
        cycling_on == prescription.cycling_days_on
        cycling_off == prescription.cycling_days_off
        days_since_start == check_date - date_first
    IN  /\ Truthy(cycling_on) /\ Truthy(cycling_off)
        /\ \/ /\ prescription.frequency \in {"daily", "twice-daily"}
              /\ days_since_start % (cycling_on[1] + cycling_off[1]) >= cycling_on[1]
           \/ /\ prescription.frequency \in weekly_frequencies
              /\ (days_since_start \div 7) % (cycling_on[1] + cycling_off[1]) >= cycling_on[1]

\* the target-day test without the clamp to the end of a shorter month
DayOfMonthDueNoClamp(date_first, check_date) ==
    DayOf(check_date) = DayOf(date_first)

\* the target-day test firing on the last day of every month as well
DayOfMonthDueAlsoLastDay(date_first, check_date) ==
    \/ DayOf(check_date) = DayOf(date_first)
    \/ DayOf(check_date) = last_day_of_month(check_date)

\* target-day test shared by monthly and quarterly
DayOfMonthDue(date_first, check_date) ==
    LET target_day == DayOf(date_first)
    IN  \/ DayOf(check_date) = target_day
        \/ /\ DayOf(check_date) = last_day_of_month(check_date)
           /\ target_day > DayOf(check_date)

\* months_diff without the difference of the months of the year
months_diff_years_only(date_first, check_date) ==
    (YearOf(check_date) - YearOf(date_first)) * 12

\* months_diff of the quarterly branch
months_diff(date_first, check_date) ==
    (YearOf(check_date) - YearOf(date_first)) * 12
        + MonthOf(check_date) - MonthOf(date_first)

\* The frequency check: the chain of if/elif on freq, falling through to 0.
FrequencyDueNoAnchorCheck(prescription, check_date) ==
    LET freq == prescription.frequency
        date_first == prescription.date_first_prescribed
    IN  CASE freq = "daily" -> 1
          [] freq = "twice-daily" -> 2
          [] freq = "M,W,F" ->
                IF Weekday(check_date) \in monday_wednesday_friday THEN 1 ELSE 0
          [] freq = "MTWTHF" ->
                IF Weekday(check_date) \in is_weekday THEN 1 ELSE 0
          [] freq = "M,TH" ->
                IF Weekday(check_date) \in monday_thursday THEN 1 ELSE 0
          [] freq = "weekly" ->
                IF Weekday(check_date) = Weekday(date_first) THEN 1 ELSE 0
          [] freq = "monthly" ->
                IF DayOfMonthDue(date_first, check_date) THEN 1 ELSE 0
          [] freq = "quarterly" ->
                IF /\ ((YearOf(check_date) - YearOf(date_first)) * 12
                        + MonthOf(check_date) - MonthOf(date_first)) % 3 = 0
                   /\ DayOfMonthDue(date_first, check_date)
                THEN 1 ELSE 0
          [] OTHER -> 0

FrequencyDue(prescription, check_date) ==
    LET freq == prescription.frequency
        date_first == prescription.date_first_prescribed
    IN  CASE freq = "daily" -> IF check_date >= date_first THEN 1 ELSE 0
          [] freq = "twice-daily" -> IF check_date >= date_first THEN 2 ELSE 0
          [] freq = "M,W,F" ->
                IF check_date >= date_first /\ Weekday(check_date) \in monday_wednesday_friday
                THEN 1 ELSE 0
          [] freq = "MTWTHF" ->
                IF check_date >= date_first /\ Weekday(check_date) \in is_weekday
                THEN 1 ELSE 0
          [] freq = "M,TH" ->
                IF check_date >= date_first /\ Weekday(check_date) \in monday_thursday
                THEN 1 ELSE 0
          [] freq = "weekly" ->
                IF check_date >= date_first /\ Weekday(check_date) = Weekday(date_first)
                THEN 1 ELSE 0
          [] freq = "monthly" ->
                IF check_date >= date_first /\ DayOfMonthDue(date_first, check_date)
                THEN 1 ELSE 0
          [] freq = "quarterly" ->
                IF /\ check_date >= date_first
                   /\ months_diff(date_first, check_date) % 3 = 0
                   /\ DayOfMonthDue(date_first, check_date)
                THEN 1 ELSE 0
          [] OTHER -> 0

\* a cycled rule in its ON phase is due at least once, whatever the frequency
\* check returns
is_dose_due_on_phase_always(prescription, check_date) ==
    IF CyclingOff(prescription, check_date)
    THEN 0
    ELSE IF Truthy(prescription.cycling_days_on) /\ Truthy(prescription.cycling_days_off)
    THEN Max(1, FrequencyDue(prescription, check_date))
    ELSE FrequencyDue(prescription, check_date)

is_dose_due_on_date(prescription, check_date) ==
    IF CyclingOff(prescription, check_date)
    THEN 0
    ELSE FrequencyDue(prescription, check_date)

(***************************************************************************)
(* State                                                                   *)
(***************************************************************************)
VARIABLES
    GLOBAL_TIME_DELTA_DAYS, \* the process-wide day offset
    right_now,              \* date.today()
    Prescription,           \* the connection's view of table Prescription: id -> row
    HistoricalDose,         \* the connection's view of table HistoricalDose: a bag of rows
    committed,              \* both tables as of the last conn.commit()
    next_id,                \* next AUTOINCREMENT id of Prescription
    dashboards,             \* the open PersonDashboard windows, in opening order
    dialog,                 \* the modal dialog that is open, if any
    sessions,               \* how many times the prescription dialog was opened
    rule, check_date, due,  \* argument and result of a bare is_dose_due_on_date call
    FUTURE_DOSES_DAYS_AHEAD,\* the process-wide length of the upcoming window
    future_doses,           \* what upcoming_doses returned: its buckets in insertion order
    future_grid             \* the rows populate_future_doses shows

vars == <<GLOBAL_TIME_DELTA_DAYS, right_now, Prescription, HistoricalDose, committed,
          next_id, dashboards, dialog, sessions, rule, check_date, due,
          FUTURE_DOSES_DAYS_AHEAD, future_doses, future_grid>>
dbVars == <<Prescription, HistoricalDose, committed, next_id>>
panelVars == <<FUTURE_DOSES_DAYS_AHEAD, future_doses, future_grid>>
callVars == <<sessions, rule, check_date, due, panelVars>>

(***************************************************************************)
(* Bounds                                                                  *)
(***************************************************************************)
NumDash == 2        \* dashboards opened from the home window
MaxDoses == 3       \* rows of HistoricalDose
MaxOffset == 1      \* |GLOBAL_TIME_DELTA_DAYS|
MaxRows == 2        \* rows of the prescription table of the dialog
MaxEdits == 2       \* cell edits in one session of the prescription dialog
MaxSessions == 1    \* sessions of the prescription dialog

(***************************************************************************)
(* Clock                                                                   *)
(***************************************************************************)
get_today == right_now + GLOBAL_TIME_DELTA_DAYS
is_showing_future_date == GLOBAL_TIME_DELTA_DAYS > 0

(***************************************************************************)
(* Rows                                                                    *)
(***************************************************************************)
\* The dict a dashboard builds from a fetched Prescription row.  Its keys
\* date_last_administered and icon_type are never read again and are left out.
PrescriptionDict(id, row) ==
    [id |-> id,
     date_first_prescribed |-> row.date_first_prescribed,
     compound_name |-> row.compound_name,
     amount |-> row.amount,
     unit |-> row.unit,
     frequency |-> row.frequency,
     cycling_days_on |-> row.cycling_days_on,
     cycling_days_off |-> row.cycling_days_off]

\* SELECT COUNT(*) FROM HistoricalDose WHERE prescription_id = ? AND
\* date_administered = ? AND amount > 0
AdministeredCount(doses, id, day) ==
    LET hit == {r \in DOMAIN doses :
                    /\ r.prescription_id = id
                    /\ r.date_administered = day
                    /\ r.amount > 0}
    IN  BagCardinality([r \in hit |-> doses[r]])

(***************************************************************************)
(* PersonDashboard: what a refresh puts on the screen                      *)
(*                                                                         *)
(* A dashboard is [selected_prescription, grid, quick, admin]:             *)
(*   selected_prescription  None or Some(dict)                             *)
(*   grid    id -> dict, one entry per prescription with a pill button in  *)
(*           the weekly grid (the button holds the dict)                   *)
(*   quick   id -> remaining, one entry per "Administer" button of the     *)
(*           due-today list (the button holds the grid's dict and the      *)
(*           remaining count)                                              *)
(*   admin   the remaining count held by the "Administer Dose" button of   *)
(*           the selected prescription, 0 when there is no such button     *)
(***************************************************************************)
OnlyIds(ids, f) == [id \in ids |-> f[id]]

\* remaining = expected - administered_count, as every render computes it
RemainingOn(dict, doses, day) ==
    is_dose_due_on_date(dict, day) - AdministeredCount(doses, dict.id, day)

populate_weekly_grid(prescs, doses, today) ==
    LET dicts == [id \in DOMAIN prescs |-> PrescriptionDict(id, prescs[id])]
        shown == {id \in DOMAIN prescs :
                    \E col \in 0..6 :
                        /\ is_dose_due_on_date(dicts[id], today + col) > 0
                        /\ RemainingOn(dicts[id], doses, today + col) > 0}
    IN  OnlyIds(shown, dicts)

\* due_today without the test remaining > 0: every prescription due today is
\* listed with expected_today - administered_count, whatever its sign
due_today_unguarded(prescs, doses, today) ==
    LET dicts == [id \in DOMAIN prescs |-> PrescriptionDict(id, prescs[id])]
        listed == {id \in DOMAIN prescs : is_dose_due_on_date(dicts[id], today) > 0}
    IN  [id \in listed |-> RemainingOn(dicts[id], doses, today)]

\* the due_today list of update_details_area: id -> remaining, for the
\* prescriptions with expected_today > 0 and remaining > 0
due_today(prescs, doses, today) ==
    LET dicts == [id \in DOMAIN prescs |-> PrescriptionDict(id, prescs[id])]
        listed == {id \in DOMAIN prescs :
                    /\ is_dose_due_on_date(dicts[id], today) > 0
                    /\ RemainingOn(dicts[id], doses, today) > 0}
    IN  [id \in listed |-> RemainingOn(dicts[id], doses, today)]

update_details_area(dsh, prescs, doses, today, future) ==
    IF dsh.selected_prescription # None
    THEN LET presc == dsh.selected_prescription[1]
             expected_today == is_dose_due_on_date(presc, today)
             remaining == RemainingOn(presc, doses, today)
         IN  [dsh EXCEPT !.quick = <<>>,
                         !.admin = IF expected_today > 0 /\ remaining > 0 /\ ~future
                                   THEN remaining ELSE 0]
    ELSE [dsh EXCEPT !.quick = IF future THEN <<>> ELSE due_today(prescs, doses, today),
                     !.admin = 0]

refresh_dashboard(dsh, prescs, doses, today, future) ==
    update_details_area([dsh EXCEPT !.grid = populate_weekly_grid(prescs, doses, today)],
                        prescs, doses, today, future)

NoDialog == [kind |-> "none"]
Idle == dialog.kind = "none"

(***************************************************************************)
(* HomeWindow.open_person_dashboard                                        *)
(***************************************************************************)
open_person_dashboard ==
    /\ Idle
    /\ Len(dashboards) < NumDash
    /\ dashboards' = Append(dashboards,
            refresh_dashboard([selected_prescription |-> None, grid |-> <<>>,
                               quick |-> <<>>, admin |-> 0],
                              Prescription, HistoricalDose, get_today,
                              is_showing_future_date))
    /\ UNCHANGED <<GLOBAL_TIME_DELTA_DAYS, right_now, dbVars, dialog, callVars>>

(***************************************************************************)
(* PersonDashboard.select_prescription                                     *)
(***************************************************************************)
select_prescription(d, id) ==
    /\ Idle
    /\ d \in DOMAIN dashboards
    /\ id \in DOMAIN dashboards[d].grid
    /\ dashboards' = [dashboards EXCEPT ![d] =
            update_details_area(
                [@ EXCEPT !.selected_prescription = Some(dashboards[d].grid[id])],
                Prescription, HistoricalDose, get_today, is_showing_future_date)]
    /\ UNCHANGED <<GLOBAL_TIME_DELTA_DAYS, right_now, dbVars, dialog, callVars>>

(***************************************************************************)
(* PersonDashboard.administer_dose_quick / administer_selected_dose        *)
(***************************************************************************)
\* dose_number = expected_today - remaining + 1
DoseNumberOffByOne(expected_today, remaining) == expected_today - remaining

DoseNumber(expected_today, remaining) == expected_today - remaining + 1

\* INSERT INTO HistoricalDose ... from the dict the button holds
DoseRow(presc, today, dose_number) ==
    [prescription_id |-> presc.id,
     date_administered |-> today,
     compound_name |-> presc.compound_name,
     amount |-> presc.amount,
     unit |-> presc.unit,
     dose_number |-> dose_number]

\* UPDATE Prescription SET date_last_administered = ? WHERE id = ?
SetLastAdministered(prescs, id, today) ==
    IF id \in DOMAIN prescs
    THEN [prescs EXCEPT ![id].date_last_administered = Some(today)]
    ELSE prescs

\* The two statements and the commit that both handlers share.
Administer(presc, remaining) ==
    LET today == get_today
        expected_today == is_dose_due_on_date(presc, today)
        dose_number == DoseNumber(expected_today, remaining)
    IN  /\ BagCardinality(HistoricalDose) < MaxDoses
        /\ HistoricalDose' = HistoricalDose (+) SetToBag({DoseRow(presc, today, dose_number)})
        /\ Prescription' = SetLastAdministered(Prescription, presc.id, today)
        /\ committed' = [Prescription |-> Prescription', HistoricalDose |-> HistoricalDose']
        /\ UNCHANGED next_id

administer_dose_quick(d, id) ==
    /\ Idle
    /\ d \in DOMAIN dashboards
    /\ id \in DOMAIN dashboards[d].quick
    /\ Administer(dashboards[d].grid[id], dashboards[d].quick[id])
    /\ dashboards' = [dashboards EXCEPT ![d] =
            refresh_dashboard(@, Prescription', HistoricalDose', get_today,
                              is_showing_future_date)]
    /\ UNCHANGED <<GLOBAL_TIME_DELTA_DAYS, right_now, dialog, callVars>>

administer_selected_dose(d) ==
    /\ Idle
    /\ d \in DOMAIN dashboards
    /\ dashboards[d].selected_prescription # None
    /\ dashboards[d].admin > 0
    /\ Administer(dashboards[d].selected_prescription[1], dashboards[d].admin)
    /\ dashboards' = [dashboards EXCEPT ![d] =
            refresh_dashboard([@ EXCEPT !.selected_prescription = None],
                              Prescription', HistoricalDose', get_today,
                              is_showing_future_date)]
    /\ UNCHANGED <<GLOBAL_TIME_DELTA_DAYS, right_now, dialog, callVars>>

(***************************************************************************)
(* PersonDashboard.change_date                                             *)
(***************************************************************************)
DayDeltas == {-7, -1, 0, 1, 7}

NewOffsetNoReset(offset, day_delta) == offset + day_delta

NewOffset(offset, day_delta) == IF day_delta = 0 THEN 0 ELSE offset + day_delta

change_date(d, day_delta) ==
    /\ Idle
    /\ d \in DOMAIN dashboards
    /\ NewOffset(GLOBAL_TIME_DELTA_DAYS, day_delta) \in -MaxOffset..MaxOffset
    /\ GLOBAL_TIME_DELTA_DAYS' = NewOffset(GLOBAL_TIME_DELTA_DAYS, day_delta)
    /\ dashboards' = [dashboards EXCEPT ![d] =
            refresh_dashboard([@ EXCEPT !.selected_prescription = None],
                              Prescription, HistoricalDose,
                              right_now + GLOBAL_TIME_DELTA_DAYS',
                              GLOBAL_TIME_DELTA_DAYS' > 0)]
    /\ UNCHANGED <<right_now, dbVars, dialog, callVars>>

(***************************************************************************)
(* PersonDashboard.open_history, HistoryWindow, DoseHistoryEditDialog      *)
(***************************************************************************)
open_history(d) ==
    /\ Idle
    /\ d \in DOMAIN dashboards
    /\ dialog' = [kind |-> "history", owner |-> d]
    /\ UNCHANGED <<GLOBAL_TIME_DELTA_DAYS, right_now, dbVars, dashboards, callVars>>

\* HistoryWindow.delete_dose: DELETE FROM HistoricalDose WHERE id = ?, commit
delete_dose(row) ==
    /\ dialog.kind = "history"
    /\ BagIn(row, HistoricalDose)
    /\ HistoricalDose' = HistoricalDose (-) SetToBag({row})
    /\ committed' = [Prescription |-> Prescription, HistoricalDose |-> HistoricalDose']
    /\ UNCHANGED <<GLOBAL_TIME_DELTA_DAYS, right_now, Prescription, next_id, dashboards,
                   dialog, callVars>>

\* the range of dose_number_input (setMinimum(1), setMaximum(2))
DoseNumberInputs == 1..2
\* values typed into amount_input (range 0..10000) and date_input
AmountInputs == {0, 5}
DateInputs == {right_now - 1, right_now}

\* HistoryWindow.edit_dose -> DoseHistoryEditDialog.save_dose with a dose_id:
\* UPDATE HistoricalDose SET date_administered, compound_name, amount, unit,
\* dose_number WHERE id = ?, commit.  Name and unit are left as loaded.
save_dose(row, date_admin, amount, dose_number) ==
    /\ dialog.kind = "history"
    /\ BagIn(row, HistoricalDose)
    /\ HistoricalDose' = (HistoricalDose (-) SetToBag({row})) (+)
            SetToBag({[row EXCEPT !.date_administered = date_admin,
                                  !.amount = amount,
                                  !.dose_number = dose_number]})
    /\ committed' = [Prescription |-> Prescription, HistoricalDose |-> HistoricalDose']
    /\ UNCHANGED <<GLOBAL_TIME_DELTA_DAYS, right_now, Prescription, next_id, dashboards,
                   dialog, callVars>>

\* closing the history window: open_history goes on to refresh_dashboard
close_history ==
    /\ dialog.kind = "history"
    /\ dialog' = NoDialog
    /\ dashboards' = [dashboards EXCEPT ![dialog.owner] =
            refresh_dashboard(@, Prescription, HistoricalDose, get_today,
                              is_showing_future_date)]
    /\ UNCHANGED <<GLOBAL_TIME_DELTA_DAYS, right_now, dbVars, callVars>>

(***************************************************************************)
(* PrescriptionList (the modal "Prescriptions" dialog)                     *)
(*                                                                         *)
(* dialog = [kind |-> "config", owner, rows, modified_rows,                *)
(*           date_modified_manually, edits].  A table row holds its cells  *)
(* and sig, the row index that populate_row's lambdas captured (the unit,  *)
(* frequency and date widgets and the Delete button report that index;     *)
(* the text cells report the row's current index through cellChanged).     *)
(* Row indices are 1-based here.                                           *)
(***************************************************************************)
\* text of the integers the cells hold: str(n) and int(text)
IntTexts == <<"-1", "0", "1", "2", "5">>
IntValues == <<-1, 0, 1, 2, 5>>
Str(n) == IntTexts[CHOOSE i \in DOMAIN IntValues : IntValues[i] = n]
IsIntText(text) == \E i \in DOMAIN IntTexts : IntTexts[i] = text
ParseInt(text) == IntValues[CHOOSE i \in DOMAIN IntTexts : IntTexts[i] = text]

\* the sentinel minimum date of _make_date_edit: QDate(2024, 1, 1)
NO_DATE == 0

\* the date a QDateEdit of _make_date_edit shows for a stored date
DateEditValue(iso) ==
    IF iso = None THEN NO_DATE
    ELSE IF iso[1] < NO_DATE THEN NO_DATE
    ELSE IF iso[1] > right_now + 365 THEN right_now + 365
    ELSE iso[1]

\* ORDER BY compound_name ASC, date_last_administered DESC (NULL last), then id
CompoundNames == <<"A", "B">>
NameRank(name) == CHOOSE i \in DOMAIN CompoundNames : CompoundNames[i] = name
RowBefore(prescs, a, b) ==
    LET ra == prescs[a]
        rb == prescs[b]
    IN  \/ NameRank(ra.compound_name) < NameRank(rb.compound_name)
        \/ /\ ra.compound_name = rb.compound_name
           /\ \/ /\ ra.date_last_administered # None
                 /\ \/ rb.date_last_administered = None
                    \/ ra.date_last_administered[1] > rb.date_last_administered[1]
              \/ /\ ra.date_last_administered = rb.date_last_administered
                 /\ a < b

RECURSIVE OrderedIds(_, _)
OrderedIds(prescs, ids) ==
    IF ids = {} THEN <<>>
    ELSE LET first == CHOOSE a \in ids : \A b \in ids \ {a} : RowBefore(prescs, a, b)
         IN  <<first>> \o OrderedIds(prescs, ids \ {first})

\* populate_row: the cells of table row `row`
populate_row(row, id, presc) ==
    [prescription_id |-> Some(id),
     compound |-> presc.compound_name,
     amount |-> Str(presc.amount),
     unit |-> presc.unit,
     freq |-> presc.frequency,
     cycle_on |-> IF Truthy(presc.cycling_days_on) THEN Str(presc.cycling_days_on[1]) ELSE "",
     cycle_off |-> IF Truthy(presc.cycling_days_off) THEN Str(presc.cycling_days_off[1]) ELSE "",
     date_first |-> DateEditValue(Some(presc.date_first_prescribed)),
     date_modified |-> DateEditValue(Some(presc.date_last_modified)),
     date_last_admin |-> DateEditValue(presc.date_last_administered),
     sig |-> row]

populate_new_row(row) ==
    [prescription_id |-> None,
     compound |-> "",
     amount |-> Str(0),
     unit |-> "mg",
     freq |-> "daily",
     cycle_on |-> "",
     cycle_off |-> "",
     date_first |-> DateEditValue(Some(get_today)),
     date_modified |-> DateEditValue(Some(get_today)),
     date_last_admin |-> DateEditValue(None),
     sig |-> row]

load_prescriptions(prescs) ==
    LET ids == OrderedIds(prescs, DOMAIN prescs)
    IN  [row \in DOMAIN ids |-> populate_row(row, ids[row], prescs[ids[row]])]

\* PersonDashboard.open_config up to dialog.exec()
open_config(d) ==
    /\ Idle
    /\ d \in DOMAIN dashboards
    /\ sessions < MaxSessions
    /\ sessions' = sessions + 1
    /\ dialog' = [kind |-> "config", owner |-> d,
                  rows |-> load_prescriptions(Prescription),
                  modified_rows |-> {}, date_modified_manually |-> {}, edits |-> 0]
    /\ UNCHANGED <<GLOBAL_TIME_DELTA_DAYS, right_now, dbVars, dashboards, rule, check_date, due,
                   panelVars>>

add_prescription_row ==
    /\ dialog.kind = "config"
    /\ Len(dialog.rows) < MaxRows
    /\ LET row == Len(dialog.rows) + 1
       IN  dialog' = [dialog EXCEPT !.rows = Append(@, populate_new_row(row)),
                                    !.modified_rows = @ \cup {row}]
    /\ UNCHANGED <<GLOBAL_TIME_DELTA_DAYS, right_now, dbVars, dashboards, callVars>>

\* what the user types into the text cells and picks in the combo boxes
CompoundInputs == {"", "A", "B"}
AmountTexts == {"0", "5", "-1", "x"}
CycleTexts == {"", "0", "1", "-1"}
UnitInputs == {"mg", "mcg"}
FrequencyInputs == {"daily", "twice-daily"}

\* mark_changed(row, _, is_date_modified)
mark_changed(dlg, row, is_date_modified) ==
    [dlg EXCEPT !.modified_rows = @ \cup {row},
                !.date_modified_manually = IF is_date_modified THEN @ \cup {row} ELSE @,
                !.edits = @ + 1]

\* editing a text cell (columns 0, 1, 4, 5): cellChanged(row, column) -> mark_changed
edit_text_cell(row, column, text) ==
    /\ dialog.kind = "config"
    /\ row \in DOMAIN dialog.rows
    /\ dialog.edits < MaxEdits
    /\ \/ column = 0 /\ text \in CompoundInputs /\ text # dialog.rows[row].compound
          /\ dialog' = mark_changed([dialog EXCEPT !.rows[row].compound = text], row, FALSE)
       \/ column = 1 /\ text \in AmountTexts /\ text # dialog.rows[row].amount
          /\ dialog' = mark_changed([dialog EXCEPT !.rows[row].amount = text], row, FALSE)
       \/ column = 4 /\ text \in CycleTexts /\ text # dialog.rows[row].cycle_on
          /\ dialog' = mark_changed([dialog EXCEPT !.rows[row].cycle_on = text], row, FALSE)
       \/ column = 5 /\ text \in CycleTexts /\ text # dialog.rows[row].cycle_off
          /\ dialog' = mark_changed([dialog EXCEPT !.rows[row].cycle_off = text], row, FALSE)
    /\ UNCHANGED <<GLOBAL_TIME_DELTA_DAYS, right_now, dbVars, dashboards, callVars>>

\* picking in a combo box (columns 2, 3): currentTextChanged -> mark_changed(sig, column)
edit_combo(row, column, text) ==
    /\ dialog.kind = "config"
    /\ row \in DOMAIN dialog.rows
    /\ dialog.edits < MaxEdits
    /\ \/ column = 2 /\ text \in UnitInputs /\ text # dialog.rows[row].unit
          /\ dialog' = mark_changed([dialog EXCEPT !.rows[row].unit = text],
                                    dialog.rows[row].sig, FALSE)
       \/ column = 3 /\ text \in FrequencyInputs /\ text # dialog.rows[row].freq
          /\ dialog' = mark_changed([dialog EXCEPT !.rows[row].freq = text],
                                    dialog.rows[row].sig, FALSE)
    /\ UNCHANGED <<GLOBAL_TIME_DELTA_DAYS, right_now, dbVars, dashboards, callVars>>

\* the date the user picks in a QDateEdit of the table
DateCellInputs == {right_now - 1}

\* picking a date in a QDateEdit (columns 6, 7, 8): dateChanged ->
\* mark_changed(sig, column, True)
edit_date(row, column, picked) ==
    /\ dialog.kind = "config"
    /\ row \in DOMAIN dialog.rows
    /\ dialog.edits < MaxEdits
    /\ picked \in DateCellInputs
    /\ \/ column = 6 /\ picked # dialog.rows[row].date_first
          /\ dialog' = mark_changed([dialog EXCEPT !.rows[row].date_first = picked],
                                    dialog.rows[row].sig, TRUE)
       \/ column = 7 /\ picked # dialog.rows[row].date_modified
          /\ dialog' = mark_changed([dialog EXCEPT !.rows[row].date_modified = picked],
                                    dialog.rows[row].sig, TRUE)
       \/ column = 8 /\ picked # dialog.rows[row].date_last_admin
          /\ dialog' = mark_changed([dialog EXCEPT !.rows[row].date_last_admin = picked],
                                    dialog.rows[row].sig, TRUE)
    /\ UNCHANGED <<GLOBAL_TIME_DELTA_DAYS, right_now, dbVars, dashboards, callVars>>

\* QTableWidget.removeRow(row): nothing happens when there is no such row
RemoveRow(rows, row) ==
    IF row \in DOMAIN rows
    THEN [i \in 1..(Len(rows) - 1) |-> IF i < row THEN rows[i] ELSE rows[i + 1]]
    ELSE rows

\* the doses that do not reference prescription id
DosesNotOf(doses, id) ==
    [r \in {x \in DOMAIN doses : x.prescription_id # id} |-> doses[r]]

\* delete_prescription deleting the doses of the prescription with it
delete_prescription_cascade(row) ==
    /\ dialog.kind = "config"
    /\ row \in DOMAIN dialog.rows
    /\ LET cells == dialog.rows[row]
       IN  /\ IF cells.prescription_id # None
              THEN /\ Prescription' = OnlyIds(DOMAIN Prescription \ {cells.prescription_id[1]},
                                              Prescription)
                   /\ HistoricalDose' = DosesNotOf(HistoricalDose, cells.prescription_id[1])
                   /\ committed' = [Prescription |-> Prescription',
                                    HistoricalDose |-> HistoricalDose']
              ELSE UNCHANGED <<Prescription, HistoricalDose, committed>>
           /\ dialog' = [dialog EXCEPT !.rows = RemoveRow(@, cells.sig)]
    /\ UNCHANGED <<GLOBAL_TIME_DELTA_DAYS, right_now, next_id, dashboards, callVars>>

\* the Delete button of table row `row`: delete_prescription(sig, prescription_id)
delete_prescription(row) ==
    /\ dialog.kind = "config"
    /\ row \in DOMAIN dialog.rows
    /\ LET cells == dialog.rows[row]
       IN  /\ IF cells.prescription_id # None
              THEN /\ Prescription' = OnlyIds(DOMAIN Prescription \ {cells.prescription_id[1]},
                                              Prescription)
                   /\ committed' = [Prescription |-> Prescription',
                                    HistoricalDose |-> HistoricalDose]
              ELSE UNCHANGED <<Prescription, committed>>
           /\ dialog' = [dialog EXCEPT !.rows = RemoveRow(@, cells.sig)]
    /\ UNCHANGED <<GLOBAL_TIME_DELTA_DAYS, right_now, HistoricalDose, next_id, dashboards,
                   callVars>>

\* the checks save_changes makes on one table row before it writes it
RowValidNoCycleCheck(cells) ==
    /\ cells.compound # ""
    /\ IsIntText(cells.amount) /\ ParseInt(cells.amount) >= 0

RowValid(cells) ==
    LET cycle_on == IF cells.cycle_on # "" THEN Some(ParseInt(cells.cycle_on)) ELSE None
        cycle_off == IF cells.cycle_off # "" THEN Some(ParseInt(cells.cycle_off)) ELSE None
    IN  /\ cells.compound # ""
        /\ IsIntText(cells.amount) /\ ParseInt(cells.amount) >= 0
        /\ ~(Truthy(cycle_on) /\ cycle_on[1] < 1)
        /\ ~(Truthy(cycle_off) /\ cycle_off[1] < 1)

\* the UPDATE or INSERT save_changes executes for table row `row`
WriteRow(dlg, row, prescs, id_next, today) ==
    LET cells == dlg.rows[row]
        cycle_on == IF cells.cycle_on # "" THEN Some(ParseInt(cells.cycle_on)) ELSE None
        cycle_off == IF cells.cycle_off # "" THEN Some(ParseInt(cells.cycle_off)) ELSE None
        date_modified ==
            IF row \in dlg.modified_rows /\ row \notin dlg.date_modified_manually
            THEN today ELSE cells.date_modified
        common(old) ==
            [old EXCEPT !.compound_name = cells.compound,
                        !.amount = ParseInt(cells.amount),
                        !.unit = cells.unit,
                        !.frequency = cells.freq,
                        !.cycling_days_on = cycle_on,
                        !.cycling_days_off = cycle_off,
                        !.date_last_modified = date_modified]
    IN  IF cells.prescription_id # None
        THEN LET id == cells.prescription_id[1]
             IN  [Prescription |->
                    IF id \notin DOMAIN prescs THEN prescs
                    ELSE IF row \in dlg.date_modified_manually
                    THEN [prescs EXCEPT ![id] =
                            [common(@) EXCEPT !.date_first_prescribed = cells.date_first,
                                              !.date_last_administered =
                                                    Some(cells.date_last_admin)]]
                    ELSE [prescs EXCEPT ![id] = common(@)],
                  next_id |-> id_next]
        ELSE [Prescription |->
                [id \in DOMAIN prescs \cup {id_next} |->
                    IF id = id_next
                    THEN [date_first_prescribed |-> cells.date_first,
                          date_last_modified |-> date_modified,
                          date_last_administered |-> None,
                          compound_name |-> cells.compound,
                          amount |-> ParseInt(cells.amount),
                          unit |-> cells.unit,
                          frequency |-> cells.freq,
                          cycling_days_on |-> cycle_on,
                          cycling_days_off |-> cycle_off]
                    ELSE prescs[id]],
              next_id |-> id_next + 1]

\* the loop of save_changes from table row `row` on: it stops at the first row
\* that fails a check, with the statements of the rows before it executed
RECURSIVE SaveRows(_, _, _, _, _)
SaveRows(dlg, row, prescs, id_next, today) ==
    IF row > Len(dlg.rows)
    THEN [ok |-> TRUE, Prescription |-> prescs, next_id |-> id_next]
    ELSE IF ~RowValid(dlg.rows[row])
    THEN [ok |-> FALSE, Prescription |-> prescs, next_id |-> id_next]
    ELSE LET written == WriteRow(dlg, row, prescs, id_next, today)
         IN  SaveRows(dlg, row + 1, written.Prescription, written.next_id, today)

SaveResult == SaveRows(dialog, 1, Prescription, next_id, get_today)

\* save_changes; on success the dialog is accepted and open_config refreshes
save_changes ==
    /\ dialog.kind = "config"
    /\ SaveResult.next_id <= MaxRows + 1
    /\ Prescription' = SaveResult.Prescription
    /\ next_id' = SaveResult.next_id
    /\ IF SaveResult.ok
       THEN /\ committed' = [Prescription |-> Prescription', HistoricalDose |-> HistoricalDose]
            /\ dialog' = NoDialog
            /\ dashboards' = [dashboards EXCEPT ![dialog.owner] =
                    refresh_dashboard(@, Prescription', HistoricalDose, get_today,
                                      is_showing_future_date)]
       ELSE UNCHANGED <<committed, dialog, dashboards>>
    /\ UNCHANGED <<GLOBAL_TIME_DELTA_DAYS, right_now, HistoricalDose, callVars>>

\* cancel_changes: the dialog is rejected and open_config does not refresh
cancel_changes ==
    /\ dialog.kind = "config"
    /\ dialog' = NoDialog
    /\ UNCHANGED <<GLOBAL_TIME_DELTA_DAYS, right_now, dbVars, dashboards, callVars>>

\* PersonDashboard.delete_selected_prescription (the class defines it; no
\* widget of the dashboard is connected to it)
delete_selected_prescription(d) ==
    /\ Idle
    /\ d \in DOMAIN dashboards
    /\ dashboards[d].selected_prescription # None
    /\ Prescription' = OnlyIds(DOMAIN Prescription \ {dashboards[d].selected_prescription[1].id},
                               Prescription)
    /\ committed' = [Prescription |-> Prescription', HistoricalDose |-> HistoricalDose]
    /\ dashboards' = [dashboards EXCEPT ![d] =
            refresh_dashboard([@ EXCEPT !.selected_prescription = None],
                              Prescription', HistoricalDose, get_today,
                              is_showing_future_date)]
    /\ UNCHANGED <<GLOBAL_TIME_DELTA_DAYS, right_now, HistoricalDose, next_id, dialog,
                   callVars>>

(***************************************************************************)
(* PersonDashboard.upcoming_doses, populate_future_doses, change_days_ahead *)
(*                                                                         *)
(* future_doses holds the buckets [compound_name, amount, doses, unit] in   *)
(* the order the dict received them.  A                                    *)
(* row of the grid shows the amount as the fraction num / den, a float     *)
(* after the division by 1000.0 and the integer itself otherwise.          *)
(***************************************************************************)
\* future_doses.get(compound_name, None): the index of the bucket, 0 for None
BucketOf(future, compound_name) ==
    IF \E i \in DOMAIN future : future[i].compound_name = compound_name
    THEN CHOOSE i \in DOMAIN future : future[i].compound_name = compound_name
    ELSE 0

\* the branch 'future_dose is None': a new bucket, after the ones there are
NewBucket(future, prescription, expected_doses) ==
    Append(future, [compound_name |-> prescription.compound_name,
                    amount |-> prescription.amount * expected_doses,
                    doses |-> expected_doses,
                    unit |-> prescription.unit])

\* the else branch replacing the totals of the bucket where the code adds
AddToBucketOverwriting(future, i, prescription, expected_doses) ==
    [future EXCEPT ![i].doses = expected_doses,
                   ![i].amount = prescription.amount * expected_doses]

\* the else branch: the totals of bucket i grow by this day's doses
AddToBucket(future, i, prescription, expected_doses) ==
    [future EXCEPT ![i].doses = @ + expected_doses,
                   ![i].amount = @ + prescription.amount * expected_doses]

\* the two nested loops from their k-th iteration on: day_delta over
\* range(days_ahead), then the prescriptions in the order of the query
RECURSIVE UpcomingFrom(_, _, _, _, _, _)
UpcomingFrom(future, k, order, prescs, today, days_ahead) ==
    IF order = <<>> \/ k >= days_ahead * Len(order)
    THEN future
    ELSE LET day_delta == k \div Len(order)
             id == order[(k % Len(order)) + 1]
             prescription == PrescriptionDict(id, prescs[id])
             expected_doses == is_dose_due_on_date(prescription, today + day_delta)
         IN  IF expected_doses > 0
             THEN IF BucketOf(future, prescription.compound_name) = 0
                  THEN UpcomingFrom(NewBucket(future, prescription, expected_doses),
                                    k + 1, order, prescs, today, days_ahead)
                  ELSE UpcomingFrom(AddToBucket(future,
                                                BucketOf(future, prescription.compound_name),
                                                prescription, expected_doses),
                                    k + 1, order, prescs, today, days_ahead)
             ELSE UpcomingFrom(future, k + 1, order, prescs, today, days_ahead)

\* the dict upcoming_doses returns, as the sequence of its values in
\* insertion order
upcoming_doses(prescs, today, days_ahead) ==
    UpcomingFrom(<<>>, 0, OrderedIds(prescs, DOMAIN prescs), prescs, today, days_ahead)

\* the conversion to milligrams from 1000 mcg on, where the code converts above
ShownDoseFrom1000(bucket) ==
    IF bucket.unit = "mcg" /\ bucket.amount >= 1000
    THEN [compound_name |-> bucket.compound_name, unit |-> "mg",
          num |-> bucket.amount, den |-> 1000, doses |-> bucket.doses]
    ELSE [compound_name |-> bucket.compound_name, unit |-> bucket.unit,
          num |-> bucket.amount, den |-> 1, doses |-> bucket.doses]

\* one row of the grid: mcg above 1000 become amount / 1000.0 mg
ShownDose(bucket) ==
    IF bucket.unit = "mcg" /\ bucket.amount > 1000
    THEN [compound_name |-> bucket.compound_name, unit |-> "mg",
          num |-> bucket.amount, den |-> 1000, doses |-> bucket.doses]
    ELSE [compound_name |-> bucket.compound_name, unit |-> bucket.unit,
          num |-> bucket.amount, den |-> 1, doses |-> bucket.doses]

\* the grid populate_future_doses builds: one row for each key of the dict
FutureGrid(future) ==
    [c \in {future[i].compound_name : i \in DOMAIN future} |->
        ShownDose(future[BucketOf(future, c)])]

alternate_days_ahead_value == IF FUTURE_DOSES_DAYS_AHEAD = 30 THEN 14 ELSE 30

\* populate_future_doses, as refresh_dashboard calls it
populate_future_doses ==
    /\ Idle
    /\ future_doses' = upcoming_doses(Prescription, get_today, FUTURE_DOSES_DAYS_AHEAD)
    /\ future_grid' = FutureGrid(future_doses')
    /\ UNCHANGED <<GLOBAL_TIME_DELTA_DAYS, right_now, dbVars, dashboards, dialog, sessions,
                   rule, check_date, due, FUTURE_DOSES_DAYS_AHEAD>>

\* change_days_ahead: the window toggles between 30 and 14 days, then
\* refresh_dashboard redraws the panel
change_days_ahead ==
    /\ Idle
    /\ FUTURE_DOSES_DAYS_AHEAD' = alternate_days_ahead_value
    /\ future_doses' = upcoming_doses(Prescription, get_today, FUTURE_DOSES_DAYS_AHEAD')
    /\ future_grid' = FutureGrid(future_doses')
    /\ UNCHANGED <<GLOBAL_TIME_DELTA_DAYS, right_now, dbVars, dashboards, dialog, sessions,
                   rule, check_date, due>>

(***************************************************************************)
(* The application                                                         *)
(***************************************************************************)
\* the database the application starts on: one prescription, no doses
FirstPrescription ==
    [date_first_prescribed |-> right_now,
     date_last_modified |-> right_now,
     date_last_administered |-> None,
     compound_name |-> "A",
     amount |-> 5,
     unit |-> "mcg",
     frequency |-> "twice-daily",
     cycling_days_on |-> None,
     cycling_days_off |-> None]

NoCall == [frequency |-> "daily", date_first_prescribed |-> 0,
           cycling_days_on |-> None, cycling_days_off |-> None]

\* the application after start-up: no window but the home window
Started ==
    /\ GLOBAL_TIME_DELTA_DAYS = 0
    /\ right_now = 7
    /\ Prescription = [id \in {1} |-> FirstPrescription]
    /\ HistoricalDose = EmptyBag
    /\ committed = [Prescription |-> Prescription, HistoricalDose |-> HistoricalDose]
    /\ next_id = 2
    /\ dashboards = <<>>
    /\ dialog = NoDialog
    /\ sessions = 0
    /\ FUTURE_DOSES_DAYS_AHEAD = 30
    /\ future_doses = <<>>
    /\ future_grid = <<>>

Init ==
    /\ Started
    /\ rule = NoCall
    /\ check_date = 0
    /\ due = 0

Rows == 1..MaxRows

\* the handlers of the dashboards
DashboardStep ==
    \/ open_person_dashboard
    \/ \E d \in 1..NumDash, id \in 1..MaxRows : select_prescription(d, id)
    \/ \E d \in 1..NumDash, id \in 1..MaxRows : administer_dose_quick(d, id)
    \/ \E d \in 1..NumDash : administer_selected_dose(d)

\* the handlers of the history window
HistoryStep ==
    \/ \E d \in 1..NumDash : open_history(d)
    \/ \E row \in DOMAIN HistoricalDose : delete_dose(row)
    \/ \E row \in DOMAIN HistoricalDose, date_admin \in DateInputs,
          amount \in AmountInputs, dose_number \in DoseNumberInputs :
            save_dose(row, date_admin, amount, dose_number)
    \/ close_history

\* the handlers of the prescription dialog
ConfigStep ==
    \/ \E d \in 1..NumDash : open_config(d)
    \/ add_prescription_row
    \/ \E row \in Rows, column \in {0, 1, 4, 5},
          text \in CompoundInputs \cup AmountTexts \cup CycleTexts :
            edit_text_cell(row, column, text)
    \/ \E row \in Rows, column \in {2, 3}, text \in UnitInputs \cup FrequencyInputs :
            edit_combo(row, column, text)
    \/ \E row \in Rows : delete_prescription(row)
    \/ save_changes
    \/ cancel_changes

ClockStep == \E d \in 1..NumDash, day_delta \in DayDeltas : change_date(d, day_delta)

\* Dashboards, the clock and the history window.
Next == DashboardStep \/ ClockStep \/ HistoryStep
Spec == Init /\ [][Next]_vars

\* Dashboards and the clock alone.
NextDash == DashboardStep \/ ClockStep
SpecDash == Init /\ [][NextDash]_vars

\* Dashboards and the prescription dialog.
NextConfig == DashboardStep \/ ConfigStep
SpecConfig == Init /\ [][NextConfig]_vars

\* Dashboards and the two ways of deleting a prescription.
NextDelete ==
    \/ DashboardStep
    \/ \E d \in 1..NumDash : delete_selected_prescription(d)
    \/ \E d \in 1..NumDash : open_config(d)
    \/ \E row \in Rows : delete_prescription(row)
    \/ add_prescription_row
    \/ save_changes
    \/ cancel_changes
SpecDelete == Init /\ [][NextDelete]_vars

\* A database of two prescriptions entered three days ago, and the
\* prescription dialog on it.
EarlierPrescriptions ==
    [id \in {1, 2} |->
        [FirstPrescription EXCEPT !.date_first_prescribed = right_now - 3,
                                  !.date_last_modified = right_now - 3,
                                  !.compound_name = CompoundNames[id]]]

InitList ==
    /\ GLOBAL_TIME_DELTA_DAYS = 0
    /\ right_now = 7
    /\ Prescription = EarlierPrescriptions
    /\ HistoricalDose = EmptyBag
    /\ committed = [Prescription |-> Prescription, HistoricalDose |-> HistoricalDose]
    /\ next_id = 3
    /\ dashboards = <<>>
    /\ dialog = NoDialog
    /\ sessions = 0
    /\ FUTURE_DOSES_DAYS_AHEAD = 30
    /\ future_doses = <<>>
    /\ future_grid = <<>>
    /\ rule = NoCall
    /\ check_date = 0
    /\ due = 0

NextList == open_person_dashboard \/ ConfigStep
SpecList == InitList /\ [][NextList]_vars

\* The prescription dialog with its date cells.
NextDates ==
    \/ NextList
    \/ \E row \in Rows, column \in {6, 7, 8}, picked \in DateCellInputs :
            edit_date(row, column, picked)
SpecDates == InitList /\ [][NextDates]_vars

\* The upcoming panel over databases of one or two prescriptions.
PanelAmounts == {0, 800, 1000, 1500}
PanelRows ==
    [date_first_prescribed : {right_now - 3, right_now + 10},
     date_last_modified : {right_now},
     date_last_administered : {None},
     compound_name : {"A", "B"},
     amount : PanelAmounts,
     unit : {"mg", "mcg"},
     frequency : {"monthly", "twice-daily"},
     cycling_days_on : {None},
     cycling_days_off : {None}]
\* the second prescription, when there is one: in mcg, of 1000 or 1500
PanelSecondRows ==
    {r \in PanelRows : /\ r.date_first_prescribed = right_now - 3
                       /\ r.unit = "mcg"
                       /\ r.amount >= 1000}

InitPanel ==
    /\ GLOBAL_TIME_DELTA_DAYS = 0
    /\ right_now = 7
    /\ \/ Prescription \in [{1} -> PanelRows]
       \/ \E first \in PanelRows, second \in PanelSecondRows :
                Prescription = (1 :> first) @@ (2 :> second)
    /\ HistoricalDose = EmptyBag
    /\ committed = [Prescription |-> Prescription, HistoricalDose |-> HistoricalDose]
    /\ next_id = 3
    /\ dashboards = <<>>
    /\ dialog = NoDialog
    /\ sessions = 0
    /\ FUTURE_DOSES_DAYS_AHEAD = 30
    /\ future_doses = <<>>
    /\ future_grid = <<>>
    /\ rule = NoCall
    /\ check_date = 0
    /\ due = 0

NextPanel == populate_future_doses \/ change_days_ahead
SpecPanel == InitPanel /\ [][NextPanel]_vars

(***************************************************************************)
(* ReconciliationService: the missed-dose backfill                         *)
(*                                                                         *)
(* backfillMissed(prescriptions, date) is not among the sources of this    *)
(* revision; it is modelled as section 4.3 of the specification words it.  *)
(***************************************************************************)
\* ledger.countAdministered: the records of one prescription and day, the
\* placeholders among them unless onlyPositiveAmount
countAdministered(doses, id, day, onlyPositiveAmount) ==
    LET hit == {r \in DOMAIN doses :
                    /\ r.prescription_id = id
                    /\ r.date_administered = day
                    /\ (onlyPositiveAmount => r.amount > 0)}
    IN  BagCardinality([r \in hit |-> doses[r]])

\* the zero-amount DoseEvent of one expected slot
Placeholder(presc, date, doseNumber) ==
    [DoseRow(presc, date, doseNumber) EXCEPT !.amount = 0]

\* the backfill gated on the administrations alone, placeholders not counted
MissedRowsPositiveGate(prescs, doses, date) ==
    UNION {{Placeholder(PrescriptionDict(id, prescs[id]), date, n) :
                n \in 1..is_dose_due_on_date(PrescriptionDict(id, prescs[id]), date)} :
           id \in {i \in DOMAIN prescs : countAdministered(doses, i, date, TRUE) = 0}}

\* the records one call inserts: for each prescription due on the date with
\* no record at all for that day, one placeholder per expected slot
MissedRows(prescs, doses, date) ==
    UNION {{Placeholder(PrescriptionDict(id, prescs[id]), date, n) :
                n \in 1..is_dose_due_on_date(PrescriptionDict(id, prescs[id]), date)} :
           id \in {i \in DOMAIN prescs :
                    /\ is_dose_due_on_date(PrescriptionDict(i, prescs[i]), date) > 0
                    /\ countAdministered(doses, i, date, FALSE) = 0}}

\* yesterday by the clock, the date the job is designed for, and today
BackfillDates == {get_today - 1, get_today}

backfillMissed(date) ==
    /\ Idle
    /\ BagCardinality(HistoricalDose)
            + Cardinality(MissedRows(Prescription, HistoricalDose, date)) <= MaxDoses
    /\ HistoricalDose' =
            HistoricalDose (+) SetToBag(MissedRows(Prescription, HistoricalDose, date))
    /\ committed' = [Prescription |-> Prescription, HistoricalDose |-> HistoricalDose']
    /\ UNCHANGED <<GLOBAL_TIME_DELTA_DAYS, right_now, Prescription, next_id,
                   dashboards, dialog, callVars>>

\* a twice-daily prescription from today on and a daily one from earlier
BackfillPrescriptions ==
    (1 :> FirstPrescription)
    @@ (2 :> [FirstPrescription EXCEPT !.date_first_prescribed = right_now - 3,
                                       !.date_last_modified = right_now - 3,
                                       !.compound_name = "B",
                                       !.frequency = "daily"])

InitBackfill ==
    /\ GLOBAL_TIME_DELTA_DAYS = 0
    /\ right_now = 7
    /\ Prescription = BackfillPrescriptions
    /\ HistoricalDose = EmptyBag
    /\ committed = [Prescription |-> Prescription, HistoricalDose |-> HistoricalDose]
    /\ next_id = 3
    /\ dashboards = <<>>
    /\ dialog = NoDialog
    /\ sessions = 0
    /\ FUTURE_DOSES_DAYS_AHEAD = 30
    /\ future_doses = <<>>
    /\ future_grid = <<>>
    /\ rule = NoCall
    /\ check_date = 0
    /\ due = 0

\* Dashboards, the clock and the backfill job.
NextBackfill ==
    \/ DashboardStep
    \/ ClockStep
    \/ \E date \in BackfillDates : backfillMissed(date)
SpecBackfill == InitBackfill /\ [][NextBackfill]_vars

\* One dashboard and its history window: administering and deleting doses.
NextSlots ==
    \/ dashboards = <<>> /\ open_person_dashboard
    \/ \E id \in 1..MaxRows : select_prescription(1, id)
    \/ \E id \in 1..MaxRows : administer_dose_quick(1, id)
    \/ administer_selected_dose(1)
    \/ open_history(1)
    \/ \E row \in DOMAIN HistoricalDose : delete_dose(row)
    \/ close_history
SpecSlots == InitBackfill /\ [][NextSlots]_vars

(***************************************************************************)
(* is_dose_due_on_date applied to a rule, day after day                    *)
(***************************************************************************)
MaxAnchor == 6      \* the anchor date_first_prescribed is a day of 0..MaxAnchor
MaxDate == 20       \* check_date is a day of 0..MaxDate
MaxCycle == 2       \* cycling_days_on and cycling_days_off are None or in 0..MaxCycle

CycleOptions == {None} \cup {Some(n) : n \in 0..MaxCycle}
Rules == [frequency : all_frequencies,
          date_first_prescribed : 0..MaxAnchor,
          cycling_days_on : CycleOptions,
          cycling_days_off : CycleOptions]

InitDue ==
    /\ Started
    /\ rule \in Rules
    /\ check_date = 0
    /\ due = is_dose_due_on_date(rule, check_date)

call_is_dose_due_on_date ==
    /\ check_date < MaxDate
    /\ check_date' = check_date + 1
    /\ due' = is_dose_due_on_date(rule, check_date')
    /\ UNCHANGED <<GLOBAL_TIME_DELTA_DAYS, right_now, dbVars, dashboards, dialog,
                   sessions, rule, panelVars>>

NextDue == call_is_dose_due_on_date
SpecDue == InitDue /\ [][NextDue]_vars

(***************************************************************************)
(* is_dose_due_on_date applied to a rule over more than a year: the anchors *)
(* are 2024-01-15, -29, -30 and -31, the dates run past the end of         *)
(* February 2025                                                           *)
(***************************************************************************)
MaxYearDate == 430      \* check_date is a day of 0..MaxYearDate

YearAnchors == {14, 28, 29, 30}
YearRules == [frequency : all_frequencies,
              date_first_prescribed : YearAnchors,
              cycling_days_on : CycleOptions,
              cycling_days_off : CycleOptions]

InitYear ==
    /\ Started
    /\ rule \in YearRules
    /\ check_date = 0
    /\ due = is_dose_due_on_date(rule, check_date)

\* the call writing back into the dict it was given
call_on_next_day_writing_rule ==
    /\ check_date < MaxYearDate
    /\ check_date' = check_date + 1
    /\ due' = is_dose_due_on_date(rule, check_date')
    /\ rule' = [rule EXCEPT !.cycling_days_on = IF Truthy(@) THEN @ ELSE None]
    /\ UNCHANGED <<GLOBAL_TIME_DELTA_DAYS, right_now, dbVars, dashboards, dialog,
                   sessions, panelVars>>

call_on_next_day ==
    /\ check_date < MaxYearDate
    /\ check_date' = check_date + 1
    /\ due' = is_dose_due_on_date(rule, check_date')
    /\ UNCHANGED <<GLOBAL_TIME_DELTA_DAYS, right_now, dbVars, dashboards, dialog,
                   sessions, rule, panelVars>>

NextYear == call_on_next_day
SpecYear == InitYear /\ [][NextYear]_vars

\* Monthly rules anchored on every day of January and February 2024, with
\* and without cycling values.
MaxMonthlyAnchor == 59      \* the anchor is a day of 0..MaxMonthlyAnchor

MonthlyRules ==
    {r \in [frequency : {"monthly"},
            date_first_prescribed : 0..MaxMonthlyAnchor,
            cycling_days_on : {None, Some(1)},
            cycling_days_off : {None, Some(1)}] :
        (r.cycling_days_on = None) = (r.cycling_days_off = None)}

InitMonthly ==
    /\ Started
    /\ rule \in MonthlyRules
    /\ check_date = 0
    /\ due = is_dose_due_on_date(rule, check_date)

SpecMonthly == InitMonthly /\ [][NextYear]_vars

(***************************************************************************)
(* Properties                                                              *)
(***************************************************************************)
StoredDict(id) == PrescriptionDict(id, Prescription[id])
DoseDays == {r.date_administered : r \in DOMAIN HistoricalDose}

\* the step is an Administer click of dashboard d on the dict presc that shows
\* the count remaining
QuickClick(d, id) == administer_dose_quick(d, id)
SelectedClick(d) == administer_selected_dose(d)

\* the rows a step adds to HistoricalDose
Appended == {r \in DOMAIN HistoricalDose' :
                CopiesIn(r, HistoricalDose') > CopiesIn(r, HistoricalDose)}

SuccessiveSoFar(id, day) ==
    LET rows == {r \in DOMAIN HistoricalDose :
                    r.prescription_id = id /\ r.date_administered = day}
        k == BagCardinality([r \in rows |-> HistoricalDose[r]])
    IN  /\ \A r \in rows : r.amount > 0 /\ HistoricalDose[r] = 1
        /\ {r.dose_number : r \in rows} = 1..k

AdministerInOrder(presc) ==
    LET id == presc.id
        k == AdministeredCount(HistoricalDose, id, get_today)
        n == is_dose_due_on_date(StoredDict(id), get_today)
    IN  (id \in DOMAIN Prescription /\ SuccessiveSoFar(id, get_today)) =>
            IF k < n
            THEN \A r \in Appended : r.dose_number = k + 1
            ELSE HistoricalDose' = HistoricalDose

C2_SuccessiveAdminister ==
    [][/\ \A d \in DOMAIN dashboards, id \in DOMAIN Prescription :
            (id \in DOMAIN dashboards[d].quick /\ QuickClick(d, id))
                => AdministerInOrder(dashboards[d].grid[id])
       /\ \A d \in DOMAIN dashboards :
            (dashboards[d].selected_prescription # None /\ SelectedClick(d))
                => AdministerInOrder(dashboards[d].selected_prescription[1])]_vars

\* C3: an administer request that read remaining = 1 appends nothing when the
\* slot it was shown is already filled by another request's event.
SlotFilled(presc, remaining) ==
    \E r \in DOMAIN HistoricalDose :
        /\ r.prescription_id = presc.id
        /\ r.date_administered = get_today
        /\ r.amount > 0
        /\ r.dose_number = DoseNumber(is_dose_due_on_date(presc, get_today), remaining)

C3_LastSlotFilledOnce ==
    [][/\ \A d \in DOMAIN dashboards, id \in DOMAIN Prescription :
            (/\ id \in DOMAIN dashboards[d].quick
             /\ dashboards[d].quick[id] = 1
             /\ SlotFilled(dashboards[d].grid[id], 1)
             /\ QuickClick(d, id))
                => HistoricalDose' = HistoricalDose
       /\ \A d \in DOMAIN dashboards :
            (/\ dashboards[d].selected_prescription # None
             /\ dashboards[d].admin = 1
             /\ SlotFilled(dashboards[d].selected_prescription[1], 1)
             /\ SelectedClick(d))
                => HistoricalDose' = HistoricalDose]_vars

\* C4: the event an administer step appends carries the compound name, amount
\* and unit the prescription has in the store at that moment, and the step
\* sets that prescription's date_last_administered to the administration date.
SnapshotOfStore(presc) ==
    /\ presc.id \in DOMAIN Prescription
    /\ \A r \in Appended :
        /\ r.compound_name = Prescription[presc.id].compound_name
        /\ r.amount = Prescription[presc.id].amount
        /\ r.unit = Prescription[presc.id].unit
    /\ presc.id \in DOMAIN Prescription'
    /\ Prescription'[presc.id].date_last_administered = Some(get_today)

C4_SnapshotAtAdministration ==
    [][/\ \A d \in DOMAIN dashboards, id \in 1..MaxRows :
            (id \in DOMAIN dashboards[d].quick /\ QuickClick(d, id))
                => SnapshotOfStore(dashboards[d].grid[id])
       /\ \A d \in DOMAIN dashboards :
            (dashboards[d].selected_prescription # None /\ SelectedClick(d))
                => SnapshotOfStore(dashboards[d].selected_prescription[1])]_vars

\* C5: where remaining for (prescription, today) is <= 0, an administer
\* attempt leaves the ledger and the prescription table unchanged.
NothingRemains(presc) ==
    \/ presc.id \notin DOMAIN Prescription
    \/ Max(is_dose_due_on_date(StoredDict(presc.id), get_today)
            - AdministeredCount(HistoricalDose, presc.id, get_today), 0) <= 0

C5_RejectedWhenNothingRemains ==
    [][/\ \A d \in DOMAIN dashboards, id \in 1..MaxRows :
            (/\ id \in DOMAIN dashboards[d].quick
             /\ NothingRemains(dashboards[d].grid[id])
             /\ QuickClick(d, id))
                => HistoricalDose' = HistoricalDose /\ Prescription' = Prescription
       /\ \A d \in DOMAIN dashboards :
            (/\ dashboards[d].selected_prescription # None
             /\ NothingRemains(dashboards[d].selected_prescription[1])
             /\ SelectedClick(d))
                => HistoricalDose' = HistoricalDose /\ Prescription' = Prescription]_vars

\* C6: the remaining count the due-today list shows for a prescription (0 when
\* the prescription is not listed) is max(dueCount - positive events, 0): it is
\* never negative, and a step that adds a positive-amount event for the
\* prescription and today, the rule unchanged, does not increase it.
ShownRemaining(prescs, doses, id) ==
    LET listed == due_today(prescs, doses, get_today)
    IN  IF id \in DOMAIN listed THEN listed[id] ELSE 0

PositiveToday(doses, id) ==
    LET hit == {r \in DOMAIN doses :
                    /\ r.prescription_id = id
                    /\ r.date_administered = get_today
                    /\ r.amount > 0}
    IN  BagCardinality([r \in hit |-> doses[r]])

RemainingIsMax(prescs, doses) ==
    \A id \in DOMAIN prescs :
        /\ ShownRemaining(prescs, doses, id) >= 0
        /\ ShownRemaining(prescs, doses, id)
            = Max(is_dose_due_on_date(PrescriptionDict(id, prescs[id]), get_today)
                    - PositiveToday(doses, id), 0)

C6_RemainingIsMaxAndMonotone ==
    [][/\ RemainingIsMax(Prescription, HistoricalDose)
       /\ \A id \in DOMAIN Prescription :
            (/\ PositiveToday(HistoricalDose', id) > PositiveToday(HistoricalDose, id)
             /\ GLOBAL_TIME_DELTA_DAYS' = GLOBAL_TIME_DELTA_DAYS
             /\ id \in DOMAIN Prescription'
             /\ StoredDict(id) = PrescriptionDict(id, Prescription'[id]))
            => ShownRemaining(Prescription', HistoricalDose', id)
                    < Max(ShownRemaining(Prescription, HistoricalDose, id), 1)]_vars

\* more positive-amount events than doses due today: the count shown is 0
C6_Witness ==
    \E id \in DOMAIN Prescription :
        /\ is_dose_due_on_date(StoredDict(id), get_today) > 0
        /\ PositiveToday(HistoricalDose, id) > is_dose_due_on_date(StoredDict(id), get_today)
        /\ ShownRemaining(Prescription, HistoricalDose, id) = 0

\* C7: every event in the ledger has dose_number 1 or 2.
C7_DoseNumberInRange ==
    \A r \in DOMAIN HistoricalDose : r.dose_number \in {1, 2}

\* C8: a save of the prescription list that hits a validation failure writes
\* no row (the table the connection reads is as before the save), and no
\* later commit persists a statement that an earlier operation left pending.
C8_FailedSaveWritesNothing ==
    [][/\ (dialog.kind = "config" /\ ~SaveResult.ok /\ save_changes)
            => Prescription' = Prescription
       /\ committed' # committed
            => /\ Prescription = committed.Prescription
               /\ HistoricalDose = committed.HistoricalDose]_vars

\* C9: is_dose_due_on_date returns 0 for every date before the anchor
\* date_first_prescribed, whatever the frequency and the cycling values.
C9_ZeroBeforeAnchor ==
    check_date < rule.date_first_prescribed => due = 0

\* a date before the anchor whose cycling phase is an ON phase has been evaluated
C9_Witness ==
    /\ check_date > 0
    /\ check_date < rule.date_first_prescribed
    /\ rule.frequency = "twice-daily"
    /\ Truthy(rule.cycling_days_on) /\ Truthy(rule.cycling_days_off)
    /\ ~CyclingOff(rule, check_date)
    /\ due = 0

\* C10: for a daily or twice-daily rule with cycling (on, off) and a date on or
\* after the anchor, the result is 1 resp. 2 when (date - anchor) mod (on + off)
\* < on and 0 otherwise, and it is the same on + off days later.
C10_DayCyclePhase ==
    (/\ rule.frequency \in {"daily", "twice-daily"}
     /\ Truthy(rule.cycling_days_on) /\ Truthy(rule.cycling_days_off)
     /\ check_date >= rule.date_first_prescribed)
    => LET on == rule.cycling_days_on[1]
           off == rule.cycling_days_off[1]
           phase == (check_date - rule.date_first_prescribed) % (on + off)
       IN  /\ due = IF phase < on
                    THEN (IF rule.frequency = "daily" THEN 1 ELSE 2)
                    ELSE 0
           /\ is_dose_due_on_date(rule, check_date + on + off) = due

\* the last ON day of a 2-on 1-off cycle, one full period after the anchor
C10_Witness ==
    /\ rule.frequency = "daily"
    /\ rule.cycling_days_on = Some(2) /\ rule.cycling_days_off = Some(1)
    /\ check_date = rule.date_first_prescribed + 4
    /\ due = 1

(***************************************************************************)
(* The calendar and the frequency names as the specification words them    *)
(***************************************************************************)
WeeklyFamily == {"weekly", "M,W,F", "M,TH", "MTWTHF"}

\* the days of the week (Monday = 0) a weekly-family rule names
DueWeekdays(r) ==
    CASE r.frequency = "weekly" -> {r.date_first_prescribed % 7}
      [] r.frequency = "M,W,F" -> {0, 2, 4}
      [] r.frequency = "M,TH" -> {0, 3}
      [] r.frequency = "MTWTHF" -> {0, 1, 2, 3, 4}
      [] OTHER -> {}

IsLeapYear(y) == (y % 4 = 0 /\ y % 100 # 0) \/ y % 400 = 0
DaysInMonth(y, m) ==
    IF m = 2 THEN (IF IsLeapYear(y) THEN 29 ELSE 28)
    ELSE IF m \in {4, 6, 9, 11} THEN 30 ELSE 31

\* the day-of-month rule with the clamp to the end of a shorter month
MonthDayRule(anchor, date) ==
    LET length == DaysInMonth(YearOf(date), MonthOf(date))
    IN  \/ DayOf(date) = DayOf(anchor)
        \/ DayOf(date) = length /\ DayOf(anchor) > length

CyclingPresent(r) ==
    /\ r.cycling_days_on # None /\ r.cycling_days_on[1] >= 1
    /\ r.cycling_days_off # None /\ r.cycling_days_off[1] >= 1

\* C11: for a weekly-family rule with cycling (on, off) in weeks and a date on
\* or after the anchor, with phase = floor(days since anchor / 7) mod (on + off),
\* the result is that of the weekday rule when phase < on and 0 otherwise.
C11_WeekCyclePhase ==
    (/\ rule.frequency \in WeeklyFamily
     /\ CyclingPresent(rule)
     /\ check_date >= rule.date_first_prescribed)
    => LET on == rule.cycling_days_on[1]
           off == rule.cycling_days_off[1]
           phase == ((check_date - rule.date_first_prescribed) \div 7) % (on + off)
       IN  due = IF phase < on /\ check_date % 7 \in DueWeekdays(rule) THEN 1 ELSE 0

\* 2 weeks on, 1 week off, anchor Monday 2024-01-15: the Monday of week-phase 2
C11_Witness ==
    /\ rule.frequency = "M,W,F"
    /\ rule.cycling_days_on = Some(2) /\ rule.cycling_days_off = Some(1)
    /\ rule.date_first_prescribed = 14
    /\ check_date = 28
    /\ due = 0

\* the days on which a rule anchored on the 31st fires: 2024-01-31, 02-29,
\* 03-31, 04-30, ..., 12-31, 2025-01-31, 02-28, 03-31
EndsOfMonths == {30, 59, 90, 120, 151, 181, 212, 243, 273, 304, 334, 365, 396, 424, 455}

\* C12: for a monthly rule and a date on or after the anchor the result is 1
\* when the day of the month is the anchor's, or the date is the last day of a
\* month shorter than the anchor's day, and 0 otherwise; anchored on the 31st
\* it fires on the last day of every month and on no other day.
C12_MonthlyClamp ==
    (rule.frequency = "monthly" /\ check_date >= rule.date_first_prescribed)
    => /\ due = IF MonthDayRule(rule.date_first_prescribed, check_date) THEN 1 ELSE 0
       /\ rule.date_first_prescribed = 30 => (due = 1 <=> check_date \in EndsOfMonths)

\* anchor 2024-01-31, date 2024-02-29
C12_Witness ==
    /\ rule.frequency = "monthly"
    /\ rule.date_first_prescribed = 30
    /\ check_date = 59
    /\ due = 1

\* C13: for a quarterly rule and a date on or after the anchor the result is 1
\* when the number of months since the anchor's month is a multiple of 3 and
\* the monthly day-of-month rule holds, and 0 otherwise.
C13_QuarterlyGate ==
    (rule.frequency = "quarterly" /\ check_date >= rule.date_first_prescribed)
    => LET anchor == rule.date_first_prescribed
           monthsDiff == (YearOf(check_date) - YearOf(anchor)) * 12
                            + (MonthOf(check_date) - MonthOf(anchor))
       IN  due = IF monthsDiff % 3 = 0 /\ MonthDayRule(anchor, check_date) THEN 1 ELSE 0

\* anchor 2024-01-15, date 2024-04-15
C13_Witness ==
    /\ rule.frequency = "quarterly"
    /\ rule.date_first_prescribed = 14
    /\ check_date = 105
    /\ due = 1

C15_CyclingNeverAdds ==
    \/ due = 0
    \/ due = is_dose_due_on_date([rule EXCEPT !.cycling_days_on = None,
                                              !.cycling_days_off = None], check_date)

\* a twice-daily rule, 1 day on and 2 days off, the day after the anchor
C15_Witness ==
    /\ rule.frequency = "twice-daily"
    /\ rule.cycling_days_on = Some(1) /\ rule.cycling_days_off = Some(2)
    /\ check_date = rule.date_first_prescribed + 1
    /\ due = 0

\* C16: for a monthly or quarterly rule the result is the same for every value
\* of the two cycling fields: whatever they hold, it is the result for the rule
\* with both fields absent.
C16_CyclingIgnoredForMonths ==
    rule.frequency \in {"monthly", "quarterly"}
    => due = is_dose_due_on_date([rule EXCEPT !.cycling_days_on = None,
                                              !.cycling_days_off = None], check_date)

\* a monthly rule with 1 on, 1 off, due 31 days after its anchor
C16_Witness ==
    /\ rule.frequency = "monthly"
    /\ rule.cycling_days_on = Some(1) /\ rule.cycling_days_off = Some(1)
    /\ rule.date_first_prescribed = 14
    /\ check_date = 45
    /\ due = 1

\* C17: every call returns 0, 1 or 2, returns 2 only for twice-daily, and leaves
\* the rule, the doses, the prescriptions and the clock offset as they were.
C17_TotalAndPure ==
    [][/\ due \in {0, 1, 2} /\ due' \in {0, 1, 2}
       /\ due = 2 => rule.frequency = "twice-daily"
       /\ due' = 2 => rule.frequency = "twice-daily"
       /\ UNCHANGED <<rule, HistoricalDose, Prescription, committed,
                      GLOBAL_TIME_DELTA_DAYS>>]_vars

\* a call on a cycled twice-daily rule has returned 2
C17_Witness ==
    /\ check_date > 0
    /\ rule.frequency = "twice-daily"
    /\ CyclingPresent(rule)
    /\ due = 2

\* the two cycling fields of a stored prescription are both absent or both
\* positive integers
CyclingWellFormed(presc) ==
    \/ presc.cycling_days_on = None /\ presc.cycling_days_off = None
    \/ CyclingPresent(presc)

\* C18: after a successful save of the prescription list every stored
\* prescription has its two cycling fields both absent or both >= 1.
C18_CyclingBothOrNeither ==
    [][(save_changes /\ SaveResult.ok)
        => \A id \in DOMAIN Prescription' : CyclingWellFormed(Prescription'[id])]_vars

\* C19: deleting a prescription, from the prescription list or from the
\* dashboard, leaves every row of HistoricalDose as it was, the rows that
\* reference the deleted prescription included.
C19_DeleteKeepsDoses ==
    [][(\/ \E row \in Rows : delete_prescription(row)
        \/ \E d \in 1..NumDash : delete_selected_prescription(d))
        => /\ HistoricalDose' = HistoricalDose
           /\ committed'.HistoricalDose = committed.HistoricalDose]_vars

\* the prescription list is open, its prescription has been deleted and the
\* dose rows administered before still reference it
C19_Witness ==
    /\ dialog.kind = "config"
    /\ Prescription = <<>>
    /\ BagCardinality(HistoricalDose) >= 2
    /\ \A r \in DOMAIN HistoricalDose : r.prescription_id = 1 /\ r.amount > 0

\* the table row shows, in a cell that is not a date, something else than the
\* stored prescription holds: the user has edited the row
NonDateCellsEdited(cells, id, presc) ==
    LET loaded == populate_row(cells.sig, id, presc)
    IN  \/ cells.compound # loaded.compound
        \/ cells.amount # loaded.amount
        \/ cells.unit # loaded.unit
        \/ cells.freq # loaded.freq
        \/ cells.cycle_on # loaded.cycle_on
        \/ cells.cycle_off # loaded.cycle_off

\* C20: after any edits, additions and deletions of rows, a successful save
\* stores every existing row the user edited in a non-date cell with
\* date_last_modified = today and leaves its date_first_prescribed and
\* date_last_administered as they were.
C20_EditedRowsStamped ==
    [][(save_changes /\ SaveResult.ok)
        => \A i \in DOMAIN dialog.rows :
            LET cells == dialog.rows[i]
            IN  (/\ cells.prescription_id # None
                 /\ cells.prescription_id[1] \in DOMAIN Prescription
                 /\ NonDateCellsEdited(cells, cells.prescription_id[1],
                                       Prescription[cells.prescription_id[1]]))
                => LET id == cells.prescription_id[1]
                   IN  /\ id \in DOMAIN Prescription'
                       /\ Prescription'[id].date_last_modified = get_today
                       /\ Prescription'[id].date_first_prescribed
                            = Prescription[id].date_first_prescribed
                       /\ Prescription'[id].date_last_administered
                            = Prescription[id].date_last_administered]_vars

\* a date cell of the table row shows something else than the stored
\* prescription holds: the user has changed a date of the row
DateCellsEdited(cells, id, presc) ==
    LET loaded == populate_row(cells.sig, id, presc)
    IN  \/ cells.date_first # loaded.date_first
        \/ cells.date_modified # loaded.date_modified
        \/ cells.date_last_admin # loaded.date_last_admin

\* C21: after any edits, additions and deletions of rows, a successful save
\* stores every existing row on which the user changed a date with the three
\* dates the row shows (a blank last-administered cell as no date or as the
\* blank cell's date), date_last_modified not replaced by today.
C21_DatesStoredAsShown ==
    [][(save_changes /\ SaveResult.ok)
        => \A i \in DOMAIN dialog.rows :
            LET cells == dialog.rows[i]
            IN  (/\ cells.prescription_id # None
                 /\ cells.prescription_id[1] \in DOMAIN Prescription
                 /\ DateCellsEdited(cells, cells.prescription_id[1],
                                    Prescription[cells.prescription_id[1]]))
                => LET id == cells.prescription_id[1]
                   IN  /\ id \in DOMAIN Prescription'
                       /\ Prescription'[id].date_first_prescribed = cells.date_first
                       /\ Prescription'[id].date_last_modified = cells.date_modified
                       /\ \/ Prescription'[id].date_last_administered
                                = Some(cells.date_last_admin)
                          \/ /\ cells.date_last_admin = NO_DATE
                             /\ Prescription'[id].date_last_administered = None]_vars

(***************************************************************************)
(* Sums over finite sets, for the totals of the upcoming window            *)
(***************************************************************************)
RECURSIVE SumOver(_, _)
SumOver(S, f) ==
    IF S = {} THEN 0
    ELSE LET x == CHOOSE y \in S : TRUE
         IN  f[x] + SumOver(S \ {x}, f)

\* the compound names future_doses has a bucket for, and the bucket of a name
BucketNames(future) == {future[i].compound_name : i \in DOMAIN future}
Bucket(future, c) == future[CHOOSE i \in DOMAIN future : future[i].compound_name = c]

\* C22: upcoming_doses returns one bucket for each compound name with a due
\* dose in the window and none for the others; a bucket's doses are the due
\* counts summed over the days of the window and the prescriptions of that
\* name, its amount the sum of due count times amount over the same pairs.
C22_UpcomingBuckets ==
    [][(populate_future_doses \/ change_days_ahead)
        => LET days == FUTURE_DOSES_DAYS_AHEAD'
               pairs(c) == {p \in (DOMAIN Prescription) \X (0..(days - 1)) :
                                Prescription[p[1]].compound_name = c}
               dueAt == [p \in (DOMAIN Prescription) \X (0..(days - 1)) |->
                            is_dose_due_on_date(StoredDict(p[1]), get_today + p[2])]
               names == {Prescription[id].compound_name : id \in DOMAIN Prescription}
           IN  /\ BucketNames(future_doses') = {c \in names : SumOver(pairs(c), dueAt) > 0}
               /\ Len(future_doses') = Cardinality(BucketNames(future_doses'))
               /\ \A c \in BucketNames(future_doses') :
                    /\ Bucket(future_doses', c).doses = SumOver(pairs(c), dueAt)
                    /\ Bucket(future_doses', c).amount =
                        SumOver(pairs(c),
                                [p \in pairs(c) |-> dueAt[p] * Prescription[p[1]].amount])]_vars

\* two prescriptions of compound A, both due in the window, in one bucket
C22_Witness ==
    /\ DOMAIN Prescription = {1, 2}
    /\ Prescription[1].compound_name = "A" /\ Prescription[2].compound_name = "A"
    /\ Prescription[1].frequency = "twice-daily" /\ Prescription[2].frequency = "monthly"
    /\ Prescription[1].amount = 800 /\ Prescription[2].amount = 1500
    /\ Prescription[1].date_first_prescribed = right_now + 10
    /\ Prescription[2].date_first_prescribed = right_now - 3
    /\ Len(future_doses) = 1
    /\ future_doses[1].doses > 2

\* C23: a bucket in mcg with an amount above 1000 is shown in mg with the
\* amount divided by 1000; every other bucket is shown with its unit and
\* amount unchanged; drawing the panel changes no stored prescription.
C23_DisplayNormalization ==
    [][(populate_future_doses \/ change_days_ahead)
        => /\ DOMAIN future_grid' = BucketNames(future_doses')
           /\ \A c \in BucketNames(future_doses') :
                LET bucket == Bucket(future_doses', c)
                    shown == future_grid'[c]
                IN  IF bucket.unit = "mcg" /\ bucket.amount > 1000
                    THEN shown.unit = "mg" /\ shown.num * 1000 = bucket.amount * shown.den
                    ELSE shown.unit = bucket.unit /\ shown.num = bucket.amount * shown.den
           /\ UNCHANGED <<Prescription, committed>>]_vars

\* 1500 mcg shown as 1.5 mg beside 1000 mcg shown as it is
C23_Witness ==
    /\ DOMAIN future_grid = {"A", "B"}
    /\ Bucket(future_doses, "A").amount = 1500 /\ Bucket(future_doses, "A").unit = "mcg"
    /\ future_grid["A"].unit = "mg"
    /\ future_grid["A"].num = 1500 /\ future_grid["A"].den = 1000
    /\ Bucket(future_doses, "B").amount = 1000 /\ Bucket(future_doses, "B").unit = "mcg"
    /\ future_grid["B"].unit = "mcg"
    /\ future_grid["B"].num = 1000 /\ future_grid["B"].den = 1

\* C24: backfillMissed is idempotent: a call for the same prescriptions and
\* date right after a call finds nothing to insert, so the ledger after the
\* second call is the ledger after the first.
C24_BackfillIdempotent ==
    [][\A date \in BackfillDates :
        backfillMissed(date)
            => HistoricalDose' (+) SetToBag(MissedRows(Prescription', HistoricalDose', date))
                    = HistoricalDose']_vars

\* a call has inserted the two placeholders of a twice-daily day beside an
\* administration of the other prescription
C24_Witness ==
    /\ \E r \in DOMAIN HistoricalDose :
            r.amount = 0 /\ r.prescription_id = 1 /\ r.dose_number = 2
    /\ \E r \in DOMAIN HistoricalDose :
            r.amount = 0 /\ r.prescription_id = 1 /\ r.dose_number = 1
    /\ \E r \in DOMAIN HistoricalDose : r.amount > 0 /\ r.prescription_id = 2

\* C25: the clock offset is one integer of the process: a change_date(d)
\* from any dashboard adds a nonzero d to it and change_date(0) sets it to 0
\* from any value, nothing else changes it, and the real date does not move,
\* so the offset is the sum of the nonzero d since the last change_date(0)
\* and get_today is the real date plus that sum.
C25_ClockOffset ==
    [][/\ \A d \in 1..NumDash, day_delta \in DayDeltas :
            change_date(d, day_delta)
                => /\ GLOBAL_TIME_DELTA_DAYS' =
                        IF day_delta = 0 THEN 0 ELSE GLOBAL_TIME_DELTA_DAYS + day_delta
                   /\ get_today' = right_now + GLOBAL_TIME_DELTA_DAYS'
       /\ GLOBAL_TIME_DELTA_DAYS' # GLOBAL_TIME_DELTA_DAYS
            => \E d \in 1..NumDash, day_delta \in DayDeltas : change_date(d, day_delta)
       /\ right_now' = right_now]_vars

\* the second dashboard has moved the clock back a day and the first shows it
C25_Witness ==
    /\ Len(dashboards) = 2
    /\ GLOBAL_TIME_DELTA_DAYS = -1
    /\ get_today = right_now - 1

\* C26: for every stored prescription, an amount of 0 included, each
\* successful administer files one event under today that decreases the
\* remaining count of that prescription and date by exactly 1.
C26_AdministerUsesUpOne ==
    [][\A d \in 1..NumDash, id \in 1..MaxRows :
        (administer_dose_quick(d, id) /\ id \in DOMAIN Prescription)
            => RemainingOn(StoredDict(id), HistoricalDose', get_today)
                    = RemainingOn(StoredDict(id), HistoricalDose, get_today) - 1]_vars

\* C27: the events with amount > 0 of one prescription and date carry
\* pairwise distinct dose numbers, whatever administrations and deletions
\* of doses came before.
C27_DistinctDoseNumbers ==
    \A r \in DOMAIN HistoricalDose :
        r.amount > 0
            => /\ HistoricalDose[r] = 1
               /\ \A q \in DOMAIN HistoricalDose :
                    (/\ q.amount > 0
                     /\ q.prescription_id = r.prescription_id
                     /\ q.date_administered = r.date_administered
                     /\ q.dose_number = r.dose_number) => q = r

\* C28: no administration is filed under a simulated future day: every
\* event an administer step appends is dated on or before the real date,
\* that is, the step runs only while the clock offset is at most 0.
C28_NoFutureAdministration ==
    [][\A d \in 1..NumDash :
        ((\E id \in 1..MaxRows : administer_dose_quick(d, id)) \/ administer_selected_dose(d))
            => /\ GLOBAL_TIME_DELTA_DAYS <= 0
               /\ \A r \in DOMAIN HistoricalDose' :
                    CopiesIn(r, HistoricalDose') > CopiesIn(r, HistoricalDose)
                        => r.date_administered <= right_now]_vars

\* the dates of the calendar month of a date
MonthDates(date) ==
    LET first == date - DayOf(date) + 1
    IN  first..(first + DaysInMonth(YearOf(date), MonthOf(date)) - 1)

\* C29: for a monthly rule, every calendar month from the anchor's month on
\* has exactly one date on or after the anchor with result 1, and none has
\* two; the date the call is made for has result 1 exactly when it is that
\* date.
C29_OncePerMonth ==
    (rule.frequency = "monthly" /\ check_date >= rule.date_first_prescribed)
    => LET fires == {d \in MonthDates(check_date) :
                        /\ d >= rule.date_first_prescribed
                        /\ is_dose_due_on_date(rule, d) = 1}
       IN  /\ Cardinality(fires) = 1
           /\ due = 1 <=> check_date \in fires
           /\ due \in {0, 1}

\* anchor 2024-01-30, date 2025-02-28: the one due date of a 28-day month
C29_Witness ==
    /\ rule.frequency = "monthly"
    /\ rule.date_first_prescribed = 29
    /\ check_date = 424
    /\ due = 1

\* C30: a rule with only one of the two cycling values present, or with
\* either of them 0, has for every frequency and date the result of the
\* same rule with no cycling at all.
C30_HalfCyclingIsNoCycling ==
    (\/ rule.cycling_days_on = None /\ rule.cycling_days_off # None
     \/ rule.cycling_days_on # None /\ rule.cycling_days_off = None
     \/ rule.cycling_days_on = Some(0)
     \/ rule.cycling_days_off = Some(0))
    => due = is_dose_due_on_date([rule EXCEPT !.cycling_days_on = None,
                                              !.cycling_days_off = None], check_date)

\* a daily rule with 2 days off and no days on, due a week after its anchor
C30_Witness ==
    /\ rule.frequency = "daily"
    /\ rule.cycling_days_on = None /\ rule.cycling_days_off = Some(2)
    /\ rule.date_first_prescribed = 14
    /\ check_date = 21
    /\ due = 1

====
